---- MODULE Spec2Model ----
(***************************************************************************)
(* Client-side core of the transit-schedule mini app: the favorites        *)
(* registry (utils/favorites.js), the response cache (utils/cache.js) and  *)
(* the cache-augmented fetch (utils/api.js), all over the browser's        *)
(* localStorage and the wall clock; and, from the App component, the       *)
(* next-departure calculator (getNextDeparture) and the batch departure    *)
(* loader (loadAllNextDepartures) with the day-type buttons that start it. *)
(*                                                                         *)
(* localStorage is modelled per key: favItem is the item under             *)
(* FAVORITES_KEY, cache[k] the item under CACHE_PREFIX + k.  An item holds *)
(* the JSON text of plain objects of strings and numbers, which            *)
(* JSON.parse(JSON.stringify(v)) reproduces key by key; a key whose value  *)
(* is undefined is dropped by stringify and reads back as undefined, so    *)
(* a missing field and an undefined field are the same value Undefined.    *)
(* Every access to localStorage may throw (storage disabled, quota         *)
(* exceeded, corrupt text under JSON.parse): each action draws which store *)
(* access of the handler throws, if any.                                   *)
(***************************************************************************)
EXTENDS Integers, Sequences, FiniteSets, TLC

VARIABLES
  now,      \* Date.now(), epoch milliseconds
  favItem,  \* localStorage item FAVORITES_KEY: [present, list]
  fcall,    \* the last call into favorites.js and what it returned
  cache,    \* localStorage items CACHE_PREFIX + key: key -> [present, data, timestamp]
  pending,  \* HTTP requests of fetchWithCache awaiting api.get()
  ccall,    \* the last step of cache.js / fetchWithCache and its outcome
  themeItem, \* localStorage item THEME_KEY: [present, theme]
  clock,    \* new Date(): local time of day, [h, m]
  ncall,    \* the last call of getNextDeparture and what it returned
  appDayType, \* App state dayType
  stops,    \* App state stops: the stop names of the selected route, in order
  nextDepartures, \* App state nextDepartures: stop name -> entry
  loads,    \* the calls of loadAllNextDepartures, running or finished
  down,     \* the stops whose schedule the backend fails to serve
  selectedStop, \* App state selectedStop: a stop name, or NoStop for null
  appDirection, \* App state direction
  schedule, \* App state schedule: the list shown on the schedule screen
  appError, \* App state error: the message shown, or Null
  loading,  \* App state loading
  schedReqs, \* the handlers suspended at an await of getStops / getSchedule
  acall     \* the last call of a typed accessor of api.js and its outcome

\* the state of the App component the model covers
appVars == <<clock, ncall, appDayType, stops, nextDepartures, loads, down>>

\* the state of the schedule screen and the typed accessors
scrVars == <<selectedStop, appDirection, schedule, appError, loading, schedReqs, acall>>

vars == <<now, favItem, fcall, cache, pending, ccall, themeItem, appVars, scrVars>>

-----------------------------------------------------------------------------
(* Bounds of the model *)

\* longest favorites list the model lets addFavorite build
MaxFavs == 2
\* instants the clock can take past one cache lifetime
MaxOver == 1
\* most HTTP requests in flight at once
MaxPending == 1
\* longest schedule handed to getNextDeparture
MaxSched == 3
\* longest stop list of a route
MaxStops == 12
\* most calls of loadAllNextDepartures running at once
MaxLoads == 2
\* most stops that loads running side by side cover together
MaxWork == 8
\* most handlers of the schedule screen suspended at an await at once
MaxReqs == 2

-----------------------------------------------------------------------------
(* The clock *)

CACHE_DURATION == 24 * 60 * 60 * 1000

\* The instants at which the model samples Date.now(): 0, and the instants
\* one cache lifetime later, millisecond by millisecond.
Instants == {0} \cup {CACHE_DURATION + k : k \in 0..MaxOver}

-----------------------------------------------------------------------------
(* JavaScript values *)

\* the value undefined of a string-valued field
Undefined == "<undefined>"
\* the value undefined of a number-valued field (direction)
UndefDir == -1
\* the value null (getCache's "no data")
Null == "<null>"

\* `${v}` for a string field
Str(v) == IF v = Undefined THEN "undefined" ELSE v
\* `${d}` for the direction
DirStr(d) == IF d = UndefDir THEN "undefined" ELSE ToString(d)
\* JavaScript truthiness of a string-valued field or of a body
Truthy(v) == v \notin {Undefined, Null, ""}

-----------------------------------------------------------------------------
(* Favorites registry: utils/favorites.js *)

\* route_long_name of a route, fixed by the route
LongName(r) == "Route " \o r

\* favoriteData of a stop favorite, as App builds it
StopCandidate(r, s, d, dt) ==
  [type |-> "stop", routeName |-> r, routeLongName |-> LongName(r),
   stopName |-> s, direction |-> d, dayType |-> dt]

\* favoriteData of a route favorite, as App builds it: no stop fields
RouteCandidate(r) ==
  [type |-> "route", routeName |-> r, routeLongName |-> LongName(r),
   stopName |-> Undefined, direction |-> UndefDir, dayType |-> Undefined]

\* The candidates the model offers: one route favorite and five stop
\* favorites, among them pairs that differ in exactly one of the four
\* fields and the pair ("7", "A_B"), ("7_A", "B").
StopCandidates ==
  { StopCandidate("7", "B", 0, "weekday"),
    StopCandidate("7", "B", 1, "weekday"),
    StopCandidate("7", "B", 0, "weekend"),
    StopCandidate("7", "A_B", 0, "weekday"),
    StopCandidate("7_A", "B", 0, "weekday") }
RouteCandidates == {RouteCandidate("7")}
Candidates == StopCandidates \cup RouteCandidates

\* no candidate: the calls that take none
NoCand ==
  [type |-> Undefined, routeName |-> Undefined, routeLongName |-> Undefined,
   stopName |-> Undefined, direction |-> UndefDir, dayType |-> Undefined]

\* the id addFavorite derives from a candidate
FavoriteId(favorite) ==
  IF favorite.type = "route"
  THEN "route_" \o Str(favorite.routeName)
  ELSE Str(favorite.routeName) \o "_" \o Str(favorite.stopName) \o "_"
         \o DirStr(favorite.direction) \o "_" \o Str(favorite.dayType)

\* NewEntry as it would be if the entry were stored without its id
NewEntryNoId(favorite, t) ==
  [type |-> favorite.type, routeName |-> favorite.routeName,
   routeLongName |-> favorite.routeLongName, stopName |-> favorite.stopName,
   direction |-> favorite.direction, dayType |-> favorite.dayType,
   timestamp |-> t, id |-> Undefined]

\* the entry addFavorite stores: {...favorite, timestamp: Date.now(), id}
NewEntry(favorite, t) ==
  [type |-> favorite.type, routeName |-> favorite.routeName,
   routeLongName |-> favorite.routeLongName, stopName |-> favorite.stopName,
   direction |-> favorite.direction, dayType |-> favorite.dayType,
   timestamp |-> t, id |-> FavoriteId(favorite)]

\* an entry written before the type field existed: the same entry without it
LegacyEntry(favorite, t) == [NewEntry(favorite, t) EXCEPT !.type = Undefined]

\* the migration of one entry in getFavorites
MigrateEntryAllStops(f) ==
  IF ~Truthy(f.type) THEN [f EXCEPT !.type = "stop"] ELSE f
MigrateEntry(f) ==
  IF ~Truthy(f.type)
  THEN [f EXCEPT !.type = IF Truthy(f.stopName) THEN "stop" ELSE "route"]
  ELSE f

NoItem == [present |-> FALSE, list |-> <<>>]
\* the item of the theme preference (utils/theme.js), absent or a theme name
NoTheme == [present |-> FALSE, theme |-> ""]
ThemeItem(theme) == [present |-> TRUE, theme |-> theme]
Item(l) == [present |-> TRUE, list |-> l]

\* The store access of a favorites call that throws: none, the getItem /
\* JSON.parse of getFavorites, the setItem of the migrated list, or the
\* call's own setItem / removeItem.
ReadFaults == {"none", "getItem", "migrate"}
Faults == ReadFaults \cup {"write"}

\* getFavorites on the stored item under a fault.  Yields the returned
\* list, the item left in the store, and whether an exception was swallowed.
GetFavoritesOn(item, fault) ==
  IF fault = "getItem"
  THEN [ret |-> <<>>, item |-> item, threw |-> TRUE]
  ELSE LET favorites == IF item.present THEN item.list ELSE <<>>
           migrated == [i \in DOMAIN favorites |-> MigrateEntry(favorites[i])]
           hadChanges == \E i \in DOMAIN favorites : ~Truthy(favorites[i].type)
       IN IF hadChanges /\ fault = "migrate"
          THEN [ret |-> <<>>, item |-> item, threw |-> TRUE]
          ELSE [ret |-> migrated,
                item |-> IF hadChanges THEN Item(migrated) ELSE item,
                threw |-> FALSE]

\* HasId as it would be if addFavorite never found the id
HasIdNever(favorites, id) == FALSE

\* favorites.some(f => f.id === id)
HasId(favorites, id) == \E i \in DOMAIN favorites : favorites[i].id = id

\* favorites.filter(f => f.id !== id)
FilterOutFirst(favorites, id) ==
  IF favorites # <<>> /\ Head(favorites).id = id THEN Tail(favorites) ELSE favorites
FilterOutId(favorites, id) == SelectSeq(favorites, LAMBDA f : f.id # id)

\* SomeMatch as it would be if isFavorite left the day type out
SomeMatchNoDayType(favorites, routeName, stopName, direction, dayType) ==
  \E i \in DOMAIN favorites :
     /\ favorites[i].routeName = routeName
     /\ favorites[i].stopName = stopName
     /\ favorites[i].direction = direction

\* the test of isFavorite on a list
SomeMatch(favorites, routeName, stopName, direction, dayType) ==
  \E i \in DOMAIN favorites :
     /\ favorites[i].routeName = routeName
     /\ favorites[i].stopName = stopName
     /\ favorites[i].direction = direction
     /\ favorites[i].dayType = dayType

\* The record of a call: the function, its candidate or id, the boolean or
\* the list it returned, and whether a store exception was swallowed in it;
\* besides, whether it repeated the call before it and whether it was a
\* getFavorites that found an entry without a type.
FCall(op, cand, id, ret, list, threw) ==
  [op |-> op, cand |-> cand, id |-> id, ret |-> ret, list |-> list, threw |-> threw,
   repeat |-> /\ op = "addFavorite" /\ fcall.op = "addFavorite"
              /\ fcall.cand = cand /\ ~threw /\ ~fcall.threw,
   migrated |-> /\ op = "getFavorites" /\ ~threw
                /\ \E i \in DOMAIN favItem.list : ~Truthy(favItem.list[i].type)]

NoCall ==
  [op |-> "none", cand |-> NoCand, id |-> "", ret |-> FALSE, list |-> <<>>,
   threw |-> FALSE, repeat |-> FALSE, migrated |-> FALSE]

\* getFavorites()
GetFavorites(fault) ==
  LET g == GetFavoritesOn(favItem, fault)
  IN /\ favItem' = g.item
     /\ fcall' = FCall("getFavorites", NoCand, "", FALSE, g.ret, g.threw)
     /\ UNCHANGED <<scrVars, appVars, themeItem, now, cache, pending, ccall>>

\* addFavorite(favorite)
AddFavoriteAtEnd(favorite, fault) ==
  LET g == GetFavoritesOn(favItem, fault)
      favorites == g.ret
      id == FavoriteId(favorite)
      exists == HasId(favorites, id)
      added == favorites \o <<NewEntry(favorite, now)>>
  IN /\ exists \/ Len(favorites) < MaxFavs
     /\ IF exists
        THEN /\ favItem' = g.item
             /\ fcall' = FCall("addFavorite", favorite, id, FALSE, <<>>, g.threw)
        ELSE IF fault = "write"
        THEN /\ favItem' = g.item
             /\ fcall' = FCall("addFavorite", favorite, id, FALSE, <<>>, TRUE)
        ELSE /\ favItem' = Item(added)
             /\ fcall' = FCall("addFavorite", favorite, id, TRUE, <<>>, g.threw)
     /\ UNCHANGED <<scrVars, appVars, themeItem, now, cache, pending, ccall>>
AddFavorite(favorite, fault) ==
  LET g == GetFavoritesOn(favItem, fault)
      favorites == g.ret
      id == FavoriteId(favorite)
      exists == HasId(favorites, id)
      added == <<NewEntry(favorite, now)>> \o favorites
  IN /\ exists \/ Len(favorites) < MaxFavs
     /\ IF exists
        THEN /\ favItem' = g.item
             /\ fcall' = FCall("addFavorite", favorite, id, FALSE, <<>>, g.threw)
        ELSE IF fault = "write"
        THEN /\ favItem' = g.item
             /\ fcall' = FCall("addFavorite", favorite, id, FALSE, <<>>, TRUE)
        ELSE /\ favItem' = Item(added)
             /\ fcall' = FCall("addFavorite", favorite, id, TRUE, <<>>, g.threw)
     /\ UNCHANGED <<scrVars, appVars, themeItem, now, cache, pending, ccall>>

\* removeFavorite(id)
RemoveFavorite(id, fault) ==
  LET g == GetFavoritesOn(favItem, fault)
      filtered == FilterOutId(g.ret, id)
  IN /\ IF fault = "write"
        THEN /\ favItem' = g.item
             /\ fcall' = FCall("removeFavorite", NoCand, id, FALSE, <<>>, TRUE)
        ELSE /\ favItem' = Item(filtered)
             /\ fcall' = FCall("removeFavorite", NoCand, id, TRUE, <<>>, g.threw)
     /\ UNCHANGED <<scrVars, appVars, themeItem, now, cache, pending, ccall>>

\* isFavorite(routeName, stopName, direction, dayType)
IsFavorite(routeName, stopName, direction, dayType, fault) ==
  LET g == GetFavoritesOn(favItem, fault)
  IN /\ favItem' = g.item
     /\ fcall' = FCall("isFavorite",
                       StopCandidate(routeName, stopName, direction, dayType), "",
                       SomeMatch(g.ret, routeName, stopName, direction, dayType),
                       <<>>, g.threw)
     /\ UNCHANGED <<scrVars, appVars, themeItem, now, cache, pending, ccall>>

\* clearFavorites()
ClearFavorites(fault) ==
  /\ favItem' = IF fault = "write" THEN favItem ELSE NoItem
  /\ fcall' = FCall("clearFavorites", NoCand, "", fault # "write", <<>>, fault = "write")
  /\ UNCHANGED <<scrVars, appVars, themeItem, now, cache, pending, ccall>>

\* handleToggleFavorite() of the App component, on the selection the App
\* holds (selectedRoute.route_short_name, selectedStop.stop_name, direction,
\* dayType): isFavorite, then removeFavorite or addFavorite, then
\* setFavorites(getFavorites()).  The call records the list handed to
\* setFavorites and, as ret, what isFavorite answered.  fault: the store
\* access that throws in each of the calls, if any.
HandleToggleFavorite(routeName, stopName, direction, dayType, fault) ==
  LET favoriteData == StopCandidate(routeName, stopName, direction, dayType)
      g1 == GetFavoritesOn(favItem, fault)
      isCurrentlyFavorite == SomeMatch(g1.ret, routeName, stopName, direction, dayType)
      id == Str(routeName) \o "_" \o Str(stopName) \o "_" \o DirStr(direction)
              \o "_" \o Str(dayType)
      g2 == GetFavoritesOn(g1.item, fault)
      exists == HasId(g2.ret, FavoriteId(favoriteData))
      written == IF fault = "write" THEN g2.item
                 ELSE IF isCurrentlyFavorite THEN Item(FilterOutId(g2.ret, id))
                 ELSE IF exists THEN g2.item
                 ELSE Item(<<NewEntry(favoriteData, now)>> \o g2.ret)
      g3 == GetFavoritesOn(written, fault)
  IN /\ isCurrentlyFavorite \/ exists \/ Len(g2.ret) < MaxFavs
     /\ favItem' = g3.item
     /\ fcall' = FCall("handleToggleFavorite", favoriteData, id, isCurrentlyFavorite,
                       g3.ret, g1.threw \/ g2.threw \/ g3.threw \/ fault = "write")
     /\ UNCHANGED <<scrVars, appVars, themeItem, now, cache, pending, ccall>>

-----------------------------------------------------------------------------
(* Response cache: utils/cache.js *)

\* One query parameter of a request: its key and the JSON text of its value.
Param(k, v) == [k |-> k, v |-> v]

\* JSON.stringify of a parameter object, keys in insertion order
RECURSIVE JoinParams(_)
JoinParams(ps) ==
  IF ps = <<>> THEN ""
  ELSE "\"" \o Head(ps).k \o "\":" \o Head(ps).v
         \o (IF Tail(ps) = <<>> THEN "" ELSE ",") \o JoinParams(Tail(ps))
JSONStringify(params) == "{" \o JoinParams(params) \o "}"

Request(endpoint, params) == [endpoint |-> endpoint, params |-> params]

\* the request of getRoutes(): fetchWithCache('/api/routes'), params = {}
RoutesRequest == Request("/api/routes", <<>>)
\* the request of getStops(routeName, direction)
StopsRequest(routeName, direction) ==
  Request("/api/route/" \o routeName \o "/stops",
          <<Param("direction", ToString(direction))>>)

Requests == {RoutesRequest, StopsRequest("7", 0)}

\* cacheKey = endpoint + JSON.stringify(params)
CacheKey(q) == q.endpoint \o JSONStringify(q.params)
CacheKeys == {CacheKey(q) : q \in Requests}

\* response.data of a successful GET: the empty body and two JSON objects
EmptyBody == ""
Bodies == {EmptyBody, "{routes}", "{stops}"}

NoEntry == [present |-> FALSE, data |-> Null, timestamp |-> 0]
CacheItem(data, t) == [present |-> TRUE, data |-> data, timestamp |-> t]

\* GetCacheOn as it would be if an expired entry were left in the store
GetCacheOnKeepExpired(c, key, t, sf) ==
  IF sf THEN [ret |-> Null, cache |-> c, lookup |-> "error"]
  ELSE IF ~c[key].present THEN [ret |-> Null, cache |-> c, lookup |-> "absent"]
  ELSE IF t - c[key].timestamp > CACHE_DURATION
       THEN [ret |-> Null, cache |-> c, lookup |-> "expired"]
       ELSE [ret |-> c[key].data, cache |-> c, lookup |-> "valid"]

\* GetCacheOn as it would be if an entry expired at age = CACHE_DURATION
GetCacheOnExpireAtTTL(c, key, t, sf) ==
  IF sf THEN [ret |-> Null, cache |-> c, lookup |-> "error"]
  ELSE IF ~c[key].present THEN [ret |-> Null, cache |-> c, lookup |-> "absent"]
  ELSE IF t - c[key].timestamp >= CACHE_DURATION
       THEN [ret |-> Null, cache |-> [c EXCEPT ![key] = NoEntry], lookup |-> "expired"]
       ELSE [ret |-> c[key].data, cache |-> c, lookup |-> "valid"]

\* GetCacheOn as it would be without the expiry check
GetCacheOnNoExpiry(c, key, t, sf) ==
  IF sf THEN [ret |-> Null, cache |-> c, lookup |-> "error"]
  ELSE IF ~c[key].present THEN [ret |-> Null, cache |-> c, lookup |-> "absent"]
  ELSE [ret |-> c[key].data, cache |-> c, lookup |-> "valid"]

\* getCache(key) at time t on store c.  sf: a store access of the call
\* (getItem, JSON.parse, removeItem) throws.  Yields the returned value, the
\* store afterwards and what the lookup met.
GetCacheOn(c, key, t, sf) ==
  IF sf THEN [ret |-> Null, cache |-> c, lookup |-> "error"]
  ELSE IF ~c[key].present THEN [ret |-> Null, cache |-> c, lookup |-> "absent"]
  ELSE LET age == t - c[key].timestamp
       IN IF age > CACHE_DURATION
          THEN [ret |-> Null, cache |-> [c EXCEPT ![key] = NoEntry], lookup |-> "expired"]
          ELSE [ret |-> c[key].data, cache |-> c, lookup |-> "valid"]

\* SetCacheOn as it would be if the entry were stamped with time 0
SetCacheOnNoStamp(c, key, data, t, sf) ==
  IF sf THEN c ELSE [c EXCEPT ![key] = CacheItem(data, 0)]

\* setCache(key, data) at time t on store c.  sf: setItem throws.
SetCacheOn(c, key, data, t, sf) ==
  IF sf THEN c ELSE [c EXCEPT ![key] = CacheItem(data, t)]

-----------------------------------------------------------------------------
(* Cache-augmented fetch: utils/api.js *)

\* the warning of the fallback result
StaleError == "stale-data-shown"

\* a request in flight: what fetchWithCache holds across `await api.get`
PendKinds == [req : Requests, useCache : BOOLEAN]

RECURSIVE SumOver(_, _)
SumOver(f, S) ==
  IF S = {} THEN 0
  ELSE LET x == CHOOSE y \in S : TRUE IN f[x] + SumOver(f, S \ {x})
\* the number of requests in flight
InFlight(pend) == SumOver(pend, DOMAIN pend)

\* The record of a step of cache.js / fetchWithCache: the function, the cache
\* key, the outcome ("return", "throw", or "await" while the GET is in
\* flight), the fields of the result, what the step's getCache met and
\* whether a store exception was swallowed in the step.
CCall(op, key, useCache, outcome, data, fromCache, error, lookup, threw) ==
  [op |-> op, key |-> key, useCache |-> useCache, outcome |-> outcome,
   data |-> data, fromCache |-> fromCache, error |-> error, lookup |-> lookup,
   threw |-> threw]

NoCCall == CCall("none", "", FALSE, "none", Null, FALSE, Undefined, "none", FALSE)

\* getCache(key) called on its own
GetCache(key, sf) ==
  LET g == GetCacheOn(cache, key, now, sf)
  IN /\ cache' = g.cache
     /\ ccall' = CCall("getCache", key, FALSE, "return", g.ret, FALSE, Undefined,
                       g.lookup, g.lookup = "error")
     /\ UNCHANGED <<scrVars, appVars, themeItem, now, favItem, fcall, pending>>

\* FetchStart as it would be if the cache were never consulted first
FetchStartNoLookup(q, useCache, sf) ==
  /\ InFlight(pending) < MaxPending
  /\ pending' = [pending EXCEPT ![[req |-> q, useCache |-> useCache]] = @ + 1]
  /\ ccall' = CCall("fetchStart", CacheKey(q), useCache, "await", Null, FALSE,
                    Undefined, "none", FALSE)
  /\ UNCHANGED <<scrVars, appVars, themeItem, now, favItem, fcall, cache>>

\* fetchWithCache(endpoint, params, useCache) up to its await: the cache
\* lookup, then either the cached result or the GET being issued.
FetchStart(q, useCache, sf) ==
  LET cacheKey == CacheKey(q)
      g == IF useCache THEN GetCacheOn(cache, cacheKey, now, sf)
           ELSE [ret |-> Null, cache |-> cache, lookup |-> "none"]
      p == [req |-> q, useCache |-> useCache]
  IN IF useCache /\ Truthy(g.ret)
     THEN /\ cache' = g.cache
          /\ ccall' = CCall("fetchStart", cacheKey, useCache, "return", g.ret, TRUE,
                            Undefined, g.lookup, g.lookup = "error")
          /\ UNCHANGED <<scrVars, appVars, themeItem, now, favItem, fcall, pending>>
     ELSE /\ InFlight(pending) < MaxPending
          /\ cache' = g.cache
          /\ pending' = [pending EXCEPT ![p] = @ + 1]
          /\ ccall' = CCall("fetchStart", cacheKey, useCache, "await", Null, FALSE,
                            Undefined, g.lookup, g.lookup = "error")
          /\ UNCHANGED <<scrVars, appVars, themeItem, now, favItem, fcall>>

\* api.get resolves with response.data = body.  sf: the setItem of setCache
\* throws.
FetchSuccessUnguarded(p, body, sf) ==
  LET cacheKey == CacheKey(p.req)
      store == p.useCache /\ Truthy(body)
  IN /\ pending[p] > 0
     /\ pending' = [pending EXCEPT ![p] = @ - 1]
     /\ cache' = IF store THEN SetCacheOn(cache, cacheKey, body, now, sf) ELSE cache
     /\ ccall' = IF store /\ sf
                 THEN CCall("fetchSuccess", cacheKey, p.useCache, "throw", Null, FALSE,
                            Undefined, "none", TRUE)
                 ELSE CCall("fetchSuccess", cacheKey, p.useCache, "return", body, FALSE,
                            Undefined, "none", FALSE)
     /\ UNCHANGED <<scrVars, appVars, themeItem, now, favItem, fcall>>
FetchSuccess(p, body, sf) ==
  LET cacheKey == CacheKey(p.req)
      store == p.useCache /\ Truthy(body)
  IN /\ pending[p] > 0
     /\ pending' = [pending EXCEPT ![p] = @ - 1]
     /\ cache' = IF store THEN SetCacheOn(cache, cacheKey, body, now, sf) ELSE cache
     /\ ccall' = CCall("fetchSuccess", cacheKey, p.useCache, "return", body, FALSE,
                       Undefined, "none", store /\ sf)
     /\ UNCHANGED <<scrVars, appVars, themeItem, now, favItem, fcall>>

\* FetchFailure as it would be without the fallback to the cache
FetchFailureNoFallback(p, sf) ==
  /\ pending[p] > 0
  /\ pending' = [pending EXCEPT ![p] = @ - 1]
  /\ ccall' = CCall("fetchFailure", CacheKey(p.req), p.useCache, "throw", Null, FALSE,
                    Undefined, "none", FALSE)
  /\ UNCHANGED <<scrVars, appVars, themeItem, now, favItem, fcall, cache>>

\* api.get rejects (timeout, non-2xx, unreachable)
FetchFailure(p, sf) ==
  LET cacheKey == CacheKey(p.req)
      g == GetCacheOn(cache, cacheKey, now, sf)
  IN /\ pending[p] > 0
     /\ pending' = [pending EXCEPT ![p] = @ - 1]
     /\ cache' = g.cache
     /\ ccall' = IF Truthy(g.ret)
                 THEN CCall("fetchFailure", cacheKey, p.useCache, "return", g.ret, TRUE,
                            StaleError, g.lookup, g.lookup = "error")
                 ELSE CCall("fetchFailure", cacheKey, p.useCache, "throw", Null, FALSE,
                            Undefined, g.lookup, g.lookup = "error")
     /\ UNCHANGED <<scrVars, appVars, themeItem, now, favItem, fcall>>

\* time passes; the record of the last step belongs to the past
Tick ==
  /\ \E t \in Instants : t > now /\ now' = t
  /\ ccall' = NoCCall
  /\ UNCHANGED <<scrVars, appVars, themeItem, favItem, fcall, cache, pending>>

-----------------------------------------------------------------------------
(* The cache namespace in the store: clearCache and isCacheFresh *)

\* The names of the store's items, as sequences of characters; the item of
\* cache key k is named CACHE_PREFIX + k, k standing as the last piece.
CACHE_PREFIX == <<"g", "t", "f", "s", "_", "c", "a", "c", "h", "e", "_">>
FAVORITES_KEY == <<"g", "t", "f", "s", "_", "f", "a", "v", "o", "r", "i", "t", "e", "s">>
THEME_KEY == <<"a", "p", "p", "-", "t", "h", "e", "m", "e">>
CacheItemKey(key) == CACHE_PREFIX \o <<key>>

\* text.startsWith(prefix)
StartsWithShared(text, prefix) ==
  Len(text) >= 5 /\ SubSeq(text, 1, 5) = SubSeq(prefix, 1, 5)
StartsWith(text, prefix) ==
  Len(text) >= Len(prefix) /\ SubSeq(text, 1, Len(prefix)) = prefix

\* Object.keys(localStorage)
StoreKeys ==
  (IF favItem.present THEN {FAVORITES_KEY} ELSE {})
  \cup (IF themeItem.present THEN {THEME_KEY} ELSE {})
  \cup {CacheItemKey(k) : k \in {k \in CacheKeys : cache[k].present}}

\* clearCache().  sf: a store access throws, Object.keys or a removeItem, so
\* that the loop over the keys (in the store's own order) stops early.
ClearCache(sf) ==
  LET prefixed == {key \in StoreKeys : StartsWith(key, CACHE_PREFIX)}
  IN \E removed \in SUBSET prefixed :
       /\ IF sf THEN removed # prefixed \/ prefixed = {} ELSE removed = prefixed
       /\ favItem' = IF FAVORITES_KEY \in removed THEN NoItem ELSE favItem
       /\ themeItem' = IF THEME_KEY \in removed THEN NoTheme ELSE themeItem
       /\ cache' = [k \in CacheKeys |->
                      IF CacheItemKey(k) \in removed THEN NoEntry ELSE cache[k]]
       /\ ccall' = CCall("clearCache", "", FALSE, "return", Null, FALSE, Undefined,
                         IF removed = {} THEN "none" ELSE "removed", sf)
       /\ UNCHANGED <<scrVars, appVars, now, fcall, pending>>

\* the freshness window of isCacheFresh
FRESH_WINDOW == 60 * 60 * 1000

\* isCacheFresh(key) at time t on store c.  sf: getItem or JSON.parse throws.
IsCacheFreshOnAtWindow(c, key, t, sf) ==
  IF sf THEN FALSE
  ELSE IF ~c[key].present THEN FALSE
  ELSE t - c[key].timestamp <= FRESH_WINDOW
IsCacheFreshOn(c, key, t, sf) ==
  IF sf THEN FALSE
  ELSE IF ~c[key].present THEN FALSE
  ELSE LET age == t - c[key].timestamp
       IN age < FRESH_WINDOW

\* isCacheFresh(key): the record of the call carries the boolean returned
IsCacheFresh(key, sf) ==
  /\ ccall' = [op |-> "isCacheFresh", key |-> key, useCache |-> FALSE,
               outcome |-> "return", data |-> Null, fromCache |-> FALSE,
               error |-> Undefined, lookup |-> "none", threw |-> sf,
               fresh |-> IsCacheFreshOn(cache, key, now, sf)]
  /\ UNCHANGED <<scrVars, appVars, themeItem, now, favItem, fcall, cache, pending>>

-----------------------------------------------------------------------------
(* The next-departure calculator: getNextDeparture of the App component *)

\* A schedule time is a string "HH:MM" or "HH:MM:SS"; the model holds a
\* string the calculator takes apart as the sequence of its characters.
Digits == <<"0", "1", "2", "3", "4", "5", "6", "7", "8", "9">>

\* two decimal digits of n, as the backend writes hours, minutes and seconds
Pad2(n) == <<Digits[(n \div 10) + 1], Digits[(n % 10) + 1]>>
\* the strings "HH:MM" and "HH:MM:SS"
HHMM(h, m) == Pad2(h) \o <<":">> \o Pad2(m)
HHMMSS(h, m, sec) == HHMM(h, m) \o <<":">> \o Pad2(sec)

\* text.substring(from, to)
Substring(text, from, to) ==
  SubSeq(text, from + 1, IF to < Len(text) THEN to ELSE Len(text))

\* text.split(':')
RECURSIVE Split(_)
Split(text) ==
  IF \A i \in DOMAIN text : text[i] # ":"
  THEN <<text>>
  ELSE LET i == CHOOSE i \in DOMAIN text :
                  text[i] = ":" /\ \A j \in 1..(i - 1) : text[j] # ":"
       IN <<SubSeq(text, 1, i - 1)>> \o Split(SubSeq(text, i + 1, Len(text)))

\* Number(text) of a string of decimal digits
RECURSIVE Number(_)
Number(text) ==
  IF text = <<>> THEN 0
  ELSE 10 * Number(SubSeq(text, 1, Len(text) - 1))
       + (CHOOSE d \in 0..9 : Digits[d + 1] = text[Len(text)])

\* the value null returned by getNextDeparture, and a returned { time, diffMin }
NoDeparture == [null |-> TRUE]
Departure(time, diffMin) == [null |-> FALSE, time |-> time, diffMin |-> diffMin]

\* now.getHours() * 60 + now.getMinutes(), moved past midnight before 04:00
NormalizedNow(date) ==
  LET currentMinutes == date.h * 60 + date.m
  IN IF currentMinutes < 4 * 60 THEN currentMinutes + 24 * 60 ELSE currentMinutes

\* one element of allTimes: { time: time.substring(0, 5), totalMin }
ParsedTimeUncut(time) ==
  LET hm == Split(Substring(time, 0, 5))
      h  == Number(hm[1])
      m  == Number(hm[2])
  IN [time |-> time,
      totalMin |-> IF h < 4 THEN (h + 24) * 60 + m ELSE h * 60 + m]
ParsedTimeNoShift(time) ==
  LET hm == Split(Substring(time, 0, 5))
      h  == Number(hm[1])
      m  == Number(hm[2])
  IN [time |-> Substring(time, 0, 5), totalMin |-> h * 60 + m]
ParsedTime(time) ==
  LET hm == Split(Substring(time, 0, 5))
      h  == Number(hm[1])
      m  == Number(hm[2])
  IN [time |-> Substring(time, 0, 5),
      totalMin |-> IF h < 4 THEN (h + 24) * 60 + m ELSE h * 60 + m]

\* allTimes.sort((a, b) => a.totalMin - b.totalMin): a stable sort, built by
\* inserting each element behind those that do not compare greater
InsertByTotalMin(sorted, e) ==
  LET k == Cardinality({i \in DOMAIN sorted : sorted[i].totalMin <= e.totalMin})
  IN SubSeq(sorted, 1, k) \o <<e>> \o SubSeq(sorted, k + 1, Len(sorted))
RECURSIVE SortByTotalMin(_)
SortByTotalMin(allTimes) ==
  IF allTimes = <<>> THEN <<>>
  ELSE InsertByTotalMin(SortByTotalMin(SubSeq(allTimes, 1, Len(allTimes) - 1)),
                        allTimes[Len(allTimes)])
\* getNextDeparture(scheduleData) called when new Date() is date
GetNextDepartureAt(scheduleData, date) ==
  IF Len(scheduleData) = 0 THEN NoDeparture
  ELSE LET normalizedNow == NormalizedNow(date)
           allTimes == SortByTotalMin([i \in DOMAIN scheduleData |->
                                          ParsedTime(scheduleData[i])])
           later == {i \in DOMAIN allTimes : allTimes[i].totalMin > normalizedNow}
       IN IF later = {} THEN NoDeparture
          ELSE LET next == allTimes[CHOOSE i \in later : \A j \in later : i <= j]
               IN Departure(next.time, next.totalMin - normalizedNow)

\* the last call of getNextDeparture: its argument, the time, its result
NCall(scheduleData, date, ret) ==
  [scheduleData |-> scheduleData, date |-> date, ret |-> ret, none |-> FALSE]
NoNCall == [scheduleData |-> <<>>, date |-> [h |-> 0, m |-> 0], ret |-> NoDeparture,
            none |-> TRUE]
\* a schedule on its way to getNextDeparture
Arriving(scheduleData) == [NoNCall EXCEPT !.scheduleData = scheduleData]

\* getNextDeparture(scheduleData)
GetNextDeparture(scheduleData) ==
  /\ ncall' = NCall(scheduleData, clock, GetNextDepartureAt(scheduleData, clock))
  /\ UNCHANGED <<scrVars, themeItem, now, favItem, fcall, cache, pending, ccall,
                 clock, appDayType, stops, nextDepartures, loads, down>>

-----------------------------------------------------------------------------
(* The batch departure loader: loadAllNextDepartures of the App component, *)
(* on the stop-list screen of a selected route (selectedStop is null)      *)

\* const chunkSize = 5
chunkSize == 5

\* the selected route and direction of the stop-list screen
RouteName == "7"
Direction == 0

\* the stop list getStops() returned: n stops with distinct names
StopName(k) == "S" \o ToString(k)
StopList(n) == [k \in 1..n |-> StopName(k)]
StopNames == {StopName(k) : k \in 1..MaxStops}

\* what a schedule was fetched for
Selection(routeName, dir, dt) == [routeName |-> routeName, dir |-> dir, dt |-> dt]

\* result.schedule of getSchedule(routeName, stopName, dir, dt) when the
\* backend serves it: the timetable does not change during a session
ScheduleOf(routeName, stopName, dir, dt) ==
  IF dt = "weekday" THEN <<HHMMSS(23, 50, 0), HHMMSS(0, 10, 0)>>
  ELSE <<HHMMSS(5, 0, 0)>>

\* nextDepartures[name]: undefined, or the value a load stored; `for` notes
\* the selection the value was computed for
NoNext == [has |-> FALSE]
NextEntry(next, sel) == [has |-> TRUE, next |-> next, for |-> sel]
\* the map {} of setNextDepartures({})
EmptyMap == [name \in StopNames |-> NoNext]

\* One call of loadAllNextDepartures: its arguments, the loop index i, the
\* stops whose getSchedule() has not settled (positions in stopsData); and,
\* for the record, the chunks it has sliced, how often it called getSchedule
\* for each stop, and the stops whose call was rejected.
NoLoad ==
  [pc |-> "idle", stopsData |-> <<>>, sel |-> Selection(Undefined, UndefDir, Undefined),
   i |-> 0, waiting |-> {}, chunks |-> <<>>, calls |-> <<>>, failed |-> {}]
Slots == 1..MaxLoads
Running(l) == l.pc = "await"
\* the getSchedule() calls of loadAllNextDepartures that have not settled
InFlightSchedules(ls) == SumOver([b \in Slots |-> Cardinality(ls[b].waiting)], Slots)
\* the stops the running loads cover together
Work(ls) == SumOver([b \in Slots |-> IF Running(ls[b]) THEN Len(ls[b].stopsData) ELSE 0], Slots)

\* the loop of loadAllNextDepartures at index i: slice the chunk and call
\* getSchedule for each of its stops, or fall out of the loop
LoopAtNoSlice(l, i) ==
  IF i < Len(l.stopsData)
  THEN LET chunk == (i + 1)..Len(l.stopsData)
       IN [l EXCEPT !.pc = "await", !.i = i, !.waiting = chunk,
                    !.chunks = Append(@, SubSeq(l.stopsData, i + 1, Len(l.stopsData))),
                    !.calls = [k \in DOMAIN @ |-> IF k \in chunk THEN @[k] + 1 ELSE @[k]]]
  ELSE [l EXCEPT !.pc = "done", !.i = i]
LoopAt(l, i) ==
  IF i < Len(l.stopsData)
  THEN LET last == IF i + chunkSize < Len(l.stopsData) THEN i + chunkSize
                   ELSE Len(l.stopsData)
           chunk == (i + 1)..last
       IN [l EXCEPT !.pc = "await", !.i = i, !.waiting = chunk,
                    !.chunks = Append(@, SubSeq(l.stopsData, i + 1, last)),
                    !.calls = [k \in DOMAIN @ |-> IF k \in chunk THEN @[k] + 1 ELSE @[k]]]
  ELSE [l EXCEPT !.pc = "done", !.i = i]

\* the slot a new call takes: the first one no running load holds
FreeSlot(ls) == CHOOSE b \in Slots : ~Running(ls[b]) /\ \A c \in 1..(b - 1) : Running(ls[c])

\* loads after loadAllNextDepartures(stopsData, routeName, dir, dt) has run
\* to its first await
LoadAllNextDepartures(ls, stopsData, routeName, dir, dt) ==
  IF routeName = Undefined \/ Len(stopsData) = 0
  THEN ls
  ELSE [ls EXCEPT ![FreeSlot(ls)] =
          LoopAt([NoLoad EXCEPT !.stopsData = stopsData,
                                !.sel = Selection(routeName, dir, dt),
                                !.calls = [k \in DOMAIN stopsData |-> 0]], 0)]

\* room for one more load within the bounds of the model: a load on its own
\* always has room
Room(ls) ==
  /\ \E b \in Slots : ~Running(ls[b])
  /\ Work(ls) = 0 \/ Work(ls) + Len(stops) <= MaxWork

\* the weekday button
ClickWeekday ==
  /\ selectedStop = Null
  /\ Len(stops) > 0 => Room(loads)
  /\ appDayType' = "weekday"
  /\ IF Len(stops) > 0
     THEN /\ nextDepartures' = EmptyMap
          /\ loads' = LoadAllNextDepartures(loads, stops, RouteName, appDirection, "weekday")
     ELSE UNCHANGED <<nextDepartures, loads>>
  /\ UNCHANGED <<scrVars, themeItem, now, favItem, fcall, cache, pending, ccall, clock, ncall, stops, down>>

\* the weekend button: it calls loadAllNextDepartures(stops), without a route
ClickWeekend ==
  /\ selectedStop = Null
  /\ appDayType' = "weekend"
  /\ IF Len(stops) > 0
     THEN /\ nextDepartures' = EmptyMap
          /\ loads' = LoadAllNextDepartures(loads, stops, Undefined, UndefDir, Undefined)
     ELSE UNCHANGED <<nextDepartures, loads>>
  /\ UNCHANGED <<scrVars, themeItem, now, favItem, fcall, cache, pending, ccall, clock, ncall, stops, down>>

\* getSchedule() of stop k of load b resolves: the try block runs on
ScheduleResolvedIfCurrent(b, k) ==
  /\ Running(loads[b])
  /\ k \in loads[b].waiting
  /\ loads[b].stopsData[k] \notin down
  /\ LET l == loads[b]
         result == ScheduleOf(l.sel.routeName, l.stopsData[k], l.sel.dir, l.sel.dt)
         next == GetNextDepartureAt(result, clock)
     IN /\ nextDepartures' = IF l.sel.dt = appDayType
                             THEN [nextDepartures EXCEPT ![l.stopsData[k]] = NextEntry(next, l.sel)]
                             ELSE nextDepartures
        /\ loads' = [loads EXCEPT ![b].waiting = @ \ {k}]
  /\ UNCHANGED <<scrVars, themeItem, now, favItem, fcall, cache, pending, ccall, clock, ncall, appDayType, stops, down>>
ScheduleResolved(b, k) ==
  /\ Running(loads[b])
  /\ k \in loads[b].waiting
  /\ loads[b].stopsData[k] \notin down
  /\ LET l == loads[b]
         result == ScheduleOf(l.sel.routeName, l.stopsData[k], l.sel.dir, l.sel.dt)
         next == GetNextDepartureAt(result, clock)
     IN /\ nextDepartures' = [nextDepartures EXCEPT ![l.stopsData[k]] = NextEntry(next, l.sel)]
        /\ loads' = [loads EXCEPT ![b].waiting = @ \ {k}]
  /\ UNCHANGED <<scrVars, themeItem, now, favItem, fcall, cache, pending, ccall, clock, ncall, appDayType, stops, down>>

\* getSchedule() of stop k of load b rejects: the catch block logs the error
ScheduleRejectedAbort(b, k) ==
  /\ Running(loads[b])
  /\ k \in loads[b].waiting
  /\ loads[b].stopsData[k] \in down
  /\ loads' = [loads EXCEPT ![b].waiting = {}, ![b].failed = @ \cup {k}, ![b].pc = "done"]
  /\ UNCHANGED <<scrVars, themeItem, now, favItem, fcall, cache, pending, ccall,
                 clock, ncall, appDayType, stops, nextDepartures, down>>
ScheduleRejected(b, k) ==
  /\ Running(loads[b])
  /\ k \in loads[b].waiting
  /\ loads[b].stopsData[k] \in down
  /\ loads' = [loads EXCEPT ![b].waiting = @ \ {k}, ![b].failed = @ \cup {k}]
  /\ UNCHANGED <<scrVars, themeItem, now, favItem, fcall, cache, pending, ccall,
                 clock, ncall, appDayType, stops, nextDepartures, down>>

\* await Promise.all(...) of load b returns: the loop steps to the next chunk
ChunkSettledEarly(b) ==
  /\ Running(loads[b])
  /\ Cardinality(loads[b].waiting) <= 1
  /\ loads' = [loads EXCEPT ![b] = LoopAt(@, @.i + chunkSize)]
  /\ UNCHANGED <<scrVars, themeItem, now, favItem, fcall, cache, pending, ccall,
                 clock, ncall, appDayType, stops, nextDepartures, down>>
ChunkSettled(b) ==
  /\ Running(loads[b])
  /\ loads[b].waiting = {}
  /\ loads' = [loads EXCEPT ![b] = LoopAt(@, @.i + chunkSize)]
  /\ UNCHANGED <<scrVars, themeItem, now, favItem, fcall, cache, pending, ccall,
                 clock, ncall, appDayType, stops, nextDepartures, down>>

-----------------------------------------------------------------------------
(* The typed accessors of utils/api.js: getRoutes, getStops, getSchedule,  *)
(* getIntervals, getDurations                                              *)

\* response.data as axios hands it over: the parsed JSON of the body, or the
\* empty string for an empty body
JsonNull == [type |-> "null"]
JsonUndefined == [type |-> "undefined"]
JsonText(text) == [type |-> "string", text |-> text]
JsonArray(items) == [type |-> "array", items |-> items]
JsonObject(fields) == [type |-> "object", fields |-> fields]

\* the field each accessor reads and the default after its `||`
Accessors == {"getRoutes", "getStops", "getSchedule", "getIntervals", "getDurations"}
FieldOf(acc) ==
  CASE acc = "getRoutes" -> "routes"
    [] acc = "getStops" -> "stops"
    [] acc = "getSchedule" -> "schedule"
    [] acc = "getIntervals" -> "intervals"
    [] acc = "getDurations" -> "durations"
DefaultOf(acc) ==
  IF acc \in {"getRoutes", "getStops", "getSchedule"} THEN JsonArray(<<>>) ELSE JsonNull
Fields == {FieldOf(acc) : acc \in Accessors}

\* a value the backend puts under a field
Payload == JsonArray(<<JsonText("x")>>)

\* The bodies the model draws: JSON null, the empty body, [], {}, and for
\* each field the objects {field: null}, {field: []} and {field: Payload}.
ResponseBodies ==
  {JsonNull, JsonText(""), JsonArray(<<>>), JsonObject(<<>>)}
    \cup {JsonObject([g \in {f} |-> v]) : f \in Fields,
                                          v \in {JsonNull, JsonArray(<<>>), Payload}}

\* JavaScript truthiness of a JSON value
TruthyValue(v) ==
  /\ v.type \notin {"null", "undefined"}
  /\ ~(v.type = "string" /\ v.text = "")

\* value.name: undefined unless value is an object with that key.  Of null
\* and of undefined the access throws a TypeError instead.
MemberThrows(value) == value.type \in {"null", "undefined"}
Member(value, name) ==
  IF value.type = "object" /\ name \in DOMAIN value.fields
  THEN value.fields[name]
  ELSE JsonUndefined

\* a || b
OrElse(a, b) == IF TruthyValue(a) THEN a ELSE b

\* What `await fetchWithCache(...)` gives an accessor: a fresh response with
\* any body, a cache hit or a stale fallback (the cache holds truthy data
\* only), or the rejection of the request.
FetchResult(outcome, data, fromCache, error) ==
  [outcome |-> outcome, data |-> data, fromCache |-> fromCache, error |-> error]
FetchResults ==
  {FetchResult("return", b, FALSE, Undefined) : b \in ResponseBodies}
    \cup {FetchResult("return", b, TRUE, e) :
            b \in {c \in ResponseBodies : TruthyValue(c)}, e \in {Undefined, StaleError}}
    \cup {FetchResult("throw", JsonUndefined, FALSE, Undefined)}

\* the call of an accessor: awaiting fetchWithCache, returned or thrown
NoACall == [op |-> "none", state |-> "none"]
Awaiting(acc) == [op |-> acc, state |-> "await"]
Returned(acc, result, ret) == [op |-> acc, state |-> "return", result |-> result, ret |-> ret]
Thrown(acc, result) == [op |-> acc, state |-> "throw", result |-> result]

\* the part of an accessor after its await, on the result of fetchWithCache
Unwrap(acc, result) ==
  IF result.outcome = "throw" THEN Thrown(acc, result)
  ELSE IF MemberThrows(result.data) THEN Thrown(acc, result)
  ELSE LET value == OrElse(Member(result.data, FieldOf(acc)), DefaultOf(acc))
       IN IF acc = "getSchedule"
          THEN Returned(acc, result, [schedule |-> value, fromCache |-> result.fromCache,
                                      error |-> result.error])
          ELSE Returned(acc, result, value)

\* an accessor is called and suspends at fetchWithCache
AccessorCalled(acc) ==
  /\ acall.state # "await"
  /\ acall' = Awaiting(acc)
  /\ UNCHANGED <<selectedStop, appDirection, schedule, appError, loading, schedReqs>>
  /\ UNCHANGED <<appVars, themeItem, now, favItem, fcall, cache, pending, ccall>>

\* fetchWithCache settles and the accessor runs to its end
AccessorSettled(result) ==
  /\ acall.state = "await"
  /\ acall' = Unwrap(acall.op, result)
  /\ UNCHANGED <<selectedStop, appDirection, schedule, appError, loading, schedReqs>>
  /\ UNCHANGED <<appVars, themeItem, now, favItem, fcall, cache, pending, ccall>>

-----------------------------------------------------------------------------
(* The schedule screen of the App component: handleStopSelect,             *)
(* loadScheduleForStop, handleDirectionChange and the buttons calling them *)

DayTypes == {"weekday", "weekend"}
Directions == {0, 1}

\* the stops of the route shown on the screen, and the lists getStops() may
\* answer a change of direction with: the same stops, or the first missing
ScreenStops == StopList(2)
DirectionStops == {ScreenStops, Tail(ScreenStops)}
Names(stopsData) == {stopsData[k] : k \in DOMAIN stopsData}

\* the messages of setError
ScheduleError == "schedule-not-loaded"
DataError == "data-not-loaded"

\* what a schedule is fetched for
StopSelection(stopName, dir, dt) ==
  [routeName |-> RouteName, stopName |-> stopName, dir |-> dir, dt |-> dt]
NoStopSelection ==
  [routeName |-> Undefined, stopName |-> Undefined, dir |-> UndefDir, dt |-> Undefined]

\* App state schedule: [] or the list of a response; `for` notes the
\* request the list answered
NoSchedule == [list |-> <<>>, for |-> NoStopSelection]
Fetched(sel) ==
  [list |-> ScheduleOf(sel.routeName, sel.stopName, sel.dir, sel.dt), for |-> sel]

\* A handler suspended at an await: the call awaited and the values its
\* closure holds (the stop, the direction and the day type it was called
\* for), and the message its catch block sets.
Suspended(call, stopName, dir, dt, message) ==
  [call |-> call, stopName |-> stopName, dir |-> dir, dt |-> dt, message |-> message]

InitScreen ==
  /\ selectedStop = Null
  /\ appDirection = Direction
  /\ schedule = NoSchedule
  /\ appError = Null
  /\ loading = FALSE
  /\ schedReqs = {}
  /\ acall = NoACall

\* handleStopSelect(stop): a stop card of the list, or a stop of the map
\* under the schedule; both are rendered only while loading is false
HandleStopSelect(stop) ==
  /\ ~loading
  /\ selectedStop = Null \/ schedule.list # <<>>
  /\ stop \in Names(stops)
  /\ Cardinality(schedReqs) < MaxReqs
  /\ selectedStop' = stop
  /\ loading' = TRUE
  /\ schedReqs' = schedReqs \cup
       {Suspended("getSchedule", stop, appDirection, appDayType, ScheduleError)}
  /\ UNCHANGED <<appDirection, schedule, appError, acall>>
  /\ UNCHANGED <<appVars, themeItem, now, favItem, fcall, cache, pending, ccall>>

\* a day-type button while a stop is selected:
\* setDayType(dt); loadScheduleForStop(selectedStop, direction, dt)
ClickDayTypeOnSchedule(dt) ==
  /\ selectedStop # Null
  /\ Cardinality(schedReqs) < MaxReqs
  /\ appDayType' = dt
  /\ loading' = TRUE
  /\ schedReqs' = schedReqs \cup
       {Suspended("getSchedule", selectedStop, appDirection, dt, ScheduleError)}
  /\ UNCHANGED <<selectedStop, appDirection, schedule, appError, acall>>
  /\ UNCHANGED <<clock, ncall, stops, nextDepartures, loads, down>>
  /\ UNCHANGED <<themeItem, now, favItem, fcall, cache, pending, ccall>>

\* a direction button: setDirection(d); handleDirectionChange(d), which
\* suspends at getStops() holding the selectedStop and dayType of the render
ClickDirection(newDirection) ==
  /\ Cardinality(schedReqs) < MaxReqs
  /\ appDirection' = newDirection
  /\ loading' = TRUE
  /\ schedReqs' = schedReqs \cup
       {Suspended("getStops", selectedStop, newDirection, appDayType, DataError)}
  /\ UNCHANGED <<selectedStop, schedule, appError, acall>>
  /\ UNCHANGED <<appVars, themeItem, now, favItem, fcall, cache, pending, ccall>>

\* the back button of the schedule screen: setSelectedStop(null)
BackToStops ==
  /\ selectedStop # Null
  /\ selectedStop' = Null
  /\ UNCHANGED <<appDirection, schedule, appError, loading, schedReqs, acall>>
  /\ UNCHANGED <<appVars, themeItem, now, favItem, fcall, cache, pending, ccall>>

\* getStops() of handleDirectionChange resolves with newStops
StopsArrived(r, newStops) ==
  /\ r \in schedReqs
  /\ r.call = "getStops"
  /\ stops' = newStops
  /\ IF r.stopName = Null
     THEN /\ loading' = FALSE
          /\ schedReqs' = schedReqs \ {r}
          /\ UNCHANGED <<selectedStop, schedule>>
     ELSE IF r.stopName \in Names(newStops)
     THEN /\ selectedStop' = r.stopName
          /\ schedReqs' = (schedReqs \ {r}) \cup
               {Suspended("getSchedule", r.stopName, r.dir, r.dt, r.message)}
          /\ UNCHANGED <<schedule, loading>>
     ELSE /\ selectedStop' = Null
          /\ schedule' = NoSchedule
          /\ loading' = FALSE
          /\ schedReqs' = schedReqs \ {r}
  /\ UNCHANGED <<appDirection, appError, acall>>
  /\ UNCHANGED <<clock, ncall, appDayType, nextDepartures, loads, down>>
  /\ UNCHANGED <<themeItem, now, favItem, fcall, cache, pending, ccall>>

\* getSchedule() of a suspended handler resolves: setSchedule(result.schedule)
ScheduleArrived(r) ==
  /\ r \in schedReqs
  /\ r.call = "getSchedule"
  /\ schedule' = Fetched(StopSelection(r.stopName, r.dir, r.dt))
  /\ loading' = FALSE
  /\ schedReqs' = schedReqs \ {r}
  /\ UNCHANGED <<selectedStop, appDirection, appError, acall>>
  /\ UNCHANGED <<appVars, themeItem, now, favItem, fcall, cache, pending, ccall>>

\* the call a handler awaits rejects: its catch block sets the error
RequestRejected(r) ==
  /\ r \in schedReqs
  /\ appError' = r.message
  /\ loading' = FALSE
  /\ schedReqs' = schedReqs \ {r}
  /\ UNCHANGED <<selectedStop, appDirection, schedule, acall>>
  /\ UNCHANGED <<appVars, themeItem, now, favItem, fcall, cache, pending, ccall>>

-----------------------------------------------------------------------------
(* Specifications *)

\* Favorites found in the store at start-up: none, or lists saved by earlier
\* sessions, some of them before entries carried a type.
InitFavItems ==
  { NoItem,
    Item(<<LegacyEntry(StopCandidate("7", "B", 0, "weekday"), 0)>>),
    Item(<<NewEntry(StopCandidate("7_A", "B", 0, "weekday"), 0),
           LegacyEntry(RouteCandidate("7"), 0)>>) }

Init ==
  /\ now = 0
  /\ favItem \in InitFavItems
  /\ fcall = NoCall
  /\ cache = [k \in CacheKeys |-> NoEntry]
  /\ pending = [p \in PendKinds |-> 0]
  /\ ccall = NoCCall
  /\ themeItem = NoTheme
  /\ clock = [h |-> 0, m |-> 0]
  /\ ncall = NoNCall
  /\ appDayType = "weekday"
  /\ stops = <<>>
  /\ nextDepartures = EmptyMap
  /\ loads = [b \in Slots |-> NoLoad]
  /\ down = {}
  /\ InitScreen

\* The times of day the model samples new Date() at, and the schedule times
\* the backend sends, around the start of the transit day and midnight.
Clocks ==
  { [h |-> 23, m |-> 55], [h |-> 23, m |-> 0], [h |-> 3, m |-> 59],
    [h |-> 4, m |-> 0], [h |-> 0, m |-> 10], [h |-> 2, m |-> 0] }
Times ==
  { HHMM(23, 50), HHMM(0, 10), HHMM(2, 0), HHMM(5, 0),
    HHMMSS(23, 56, 30), HHMMSS(0, 10, 59), HHMMSS(3, 59, 0), HHMMSS(4, 0, 0) }
RECURSIVE SeqsUpTo(_, _)
SeqsUpTo(S, n) ==
  IF n = 0 THEN {<<>>}
  ELSE LET shorter == SeqsUpTo(S, n - 1)
       IN shorter \cup {Append(q, x) : q \in shorter, x \in S}
Schedules == SeqsUpTo(Times, MaxSched)

\* the calculator alone, at any of the sampled times of day
InitNext ==
  /\ now = 0
  /\ favItem = NoItem
  /\ fcall = NoCall
  /\ cache = [k \in CacheKeys |-> NoEntry]
  /\ pending = [p \in PendKinds |-> 0]
  /\ ccall = NoCCall
  /\ themeItem = NoTheme
  /\ clock \in Clocks
  /\ ncall \in {Arriving(scheduleData) : scheduleData \in Schedules}
  /\ appDayType = "weekday"
  /\ stops = <<>>
  /\ nextDepartures = EmptyMap
  /\ loads = [b \in Slots |-> NoLoad]
  /\ down = {}
  /\ InitScreen

NextNext ==
  GetNextDeparture(ncall.scheduleData)

\* The backend outages the model draws for a stop list of n stops: none,
\* one stop at any position, or every stop.
Outages(n) ==
  {{}} \cup {{StopName(k)} : k \in 1..n} \cup {{StopName(k) : k \in 1..n}}

\* the stop-list screen of a route with n stops, shortly before midnight
InitBatch ==
  /\ now = 0
  /\ favItem = NoItem
  /\ fcall = NoCall
  /\ cache = [k \in CacheKeys |-> NoEntry]
  /\ pending = [p \in PendKinds |-> 0]
  /\ ccall = NoCCall
  /\ themeItem = NoTheme
  /\ clock = [h |-> 23, m |-> 55]
  /\ ncall = NoNCall
  /\ appDayType = "weekday"
  /\ \E n \in 0..MaxStops : stops = StopList(n) /\ down \in Outages(n)
  /\ nextDepartures = EmptyMap
  /\ loads = [b \in Slots |-> NoLoad]
  /\ InitScreen

NextBatch ==
  \/ ClickWeekday
  \/ ClickWeekend
  \/ \E b \in Slots, k \in 1..MaxStops : ScheduleResolved(b, k)
  \/ \E b \in Slots, k \in 1..MaxStops : ScheduleRejected(b, k)
  \/ \E b \in Slots : ChunkSettled(b)

NextFav ==
  \/ \E fault \in ReadFaults : GetFavorites(fault)
  \/ \E c \in Candidates, fault \in Faults : AddFavorite(c, fault)
  \/ \E c \in Candidates, fault \in Faults : RemoveFavorite(FavoriteId(c), fault)
  \/ \E c \in StopCandidates, fault \in ReadFaults :
        IsFavorite(c.routeName, c.stopName, c.direction, c.dayType, fault)
  \/ \E fault \in {"none", "write"} : ClearFavorites(fault)

\* The ages of the cache entries found at start-up: just stored, around the
\* freshness window and around the cache lifetime.
StartAges == {0, FRESH_WINDOW - 1, FRESH_WINDOW, CACHE_DURATION, CACHE_DURATION + 1}

\* a store left by earlier sessions: favorites, a theme, cache entries
InitStore ==
  /\ now = CACHE_DURATION + MaxOver
  /\ favItem \in {NoItem, Item(<<NewEntry(StopCandidate("7", "B", 0, "weekday"), 0)>>)}
  /\ fcall = NoCall
  /\ cache \in [CacheKeys -> {NoEntry} \cup {CacheItem("{routes}", now - a) : a \in StartAges}]
  /\ pending = [p \in PendKinds |-> 0]
  /\ ccall = NoCCall
  /\ themeItem \in {NoTheme, ThemeItem("dark")}
  /\ clock = [h |-> 0, m |-> 0]
  /\ ncall = NoNCall
  /\ appDayType = "weekday"
  /\ stops = <<>>
  /\ nextDepartures = EmptyMap
  /\ loads = [b \in Slots |-> NoLoad]
  /\ down = {}
  /\ InitScreen

NextStore ==
  \/ \E k \in CacheKeys, sf \in BOOLEAN : GetCache(k, sf)
  \/ \E k \in CacheKeys, sf \in BOOLEAN : IsCacheFresh(k, sf)
  \/ \E sf \in BOOLEAN : ClearCache(sf)
  \/ \E q \in Requests, u, sf \in BOOLEAN : FetchStart(q, u, sf)
  \/ \E p \in PendKinds, b \in Bodies, sf \in BOOLEAN : FetchSuccess(p, b, sf)
  \/ \E p \in PendKinds, sf \in BOOLEAN : FetchFailure(p, sf)

\* the favorites registry with the favorite button of the schedule screen
NextToggle ==
  \/ \E c \in StopCandidates, fault \in {"none", "getItem", "write"} :
        HandleToggleFavorite(c.routeName, c.stopName, c.direction, c.dayType, fault)
  \/ \E c \in Candidates : AddFavorite(c, "none")
  \/ \E c \in Candidates : RemoveFavorite(FavoriteId(c), "none")

NextFavClock ==
  \/ \E c \in Candidates, fault \in Faults : AddFavorite(c, fault)
  \/ \E c \in Candidates, fault \in {"none", "getItem"} : RemoveFavorite(FavoriteId(c), fault)
  \/ Tick

NextCache ==
  \/ \E k \in CacheKeys, sf \in BOOLEAN : GetCache(k, sf)
  \/ \E q \in Requests, u, sf \in BOOLEAN : FetchStart(q, u, sf)
  \/ \E p \in PendKinds, b \in Bodies, sf \in BOOLEAN : FetchSuccess(p, b, sf)
  \/ \E p \in PendKinds, sf \in BOOLEAN : FetchFailure(p, sf)
  \/ Tick

\* the typed accessors alone
InitAccess == Init /\ favItem = NoItem
NextAccess ==
  \/ \E acc \in Accessors : AccessorCalled(acc)
  \/ \E result \in FetchResults : AccessorSettled(result)

\* the schedule screen of route RouteName, its stop list loaded
InitSched ==
  /\ now = 0
  /\ favItem = NoItem
  /\ fcall = NoCall
  /\ cache = [k \in CacheKeys |-> NoEntry]
  /\ pending = [p \in PendKinds |-> 0]
  /\ ccall = NoCCall
  /\ themeItem = NoTheme
  /\ clock = [h |-> 0, m |-> 0]
  /\ ncall = NoNCall
  /\ appDayType = "weekday"
  /\ stops = ScreenStops
  /\ nextDepartures = EmptyMap
  /\ loads = [b \in Slots |-> NoLoad]
  /\ down = {}
  /\ InitScreen

NextSched ==
  \/ \E stop \in Names(ScreenStops) : HandleStopSelect(stop)
  \/ \E dt \in DayTypes : ClickDayTypeOnSchedule(dt)
  \/ \E d \in Directions : ClickDirection(d)
  \/ BackToStops
  \/ \E r \in schedReqs, newStops \in DirectionStops : StopsArrived(r, newStops)
  \/ \E r \in schedReqs : ScheduleArrived(r)
  \/ \E r \in schedReqs : RequestRejected(r)

Next == NextFav \/ NextCache \/ NextStore \/ NextNext \/ NextBatch \/ NextAccess \/ NextSched \/ NextToggle

\* the favorites registry alone
SpecFav == Init /\ [][NextFav]_vars
\* adding and removing favorites while time passes
SpecFavClock == Init /\ [][NextFavClock]_vars
\* the favorite button over the registry
SpecToggle == Init /\ [][NextToggle]_vars
\* the response cache and the fetch alone
SpecCache == Init /\ [][NextCache]_vars
\* the cache and the fetch over a store that holds other items too
SpecStore == InitStore /\ [][NextStore]_vars
\* the next-departure calculator alone
SpecNext == InitNext /\ [][NextNext]_vars
\* the batch departure loader alone
SpecBatch == InitBatch /\ [][NextBatch]_vars
\* the typed accessors alone
SpecAccess == InitAccess /\ [][NextAccess]_vars
\* the schedule screen alone
SpecSched == InitSched /\ [][NextSched]_vars
\* the whole client core
Spec == Init /\ [][Next]_vars

-----------------------------------------------------------------------------
(* Properties of the favorites registry, under SpecFav *)

\* the list under FAVORITES_KEY (empty when the item is absent)
Stored == favItem.list

\* how many entries of a list carry an id
CountId(favorites, id) == Cardinality({i \in DOMAIN favorites : favorites[i].id = id})

\* the id the data model prescribes for an entry of a type
ExpectedId(type, f) ==
  IF type = "route"
  THEN "route_" \o f.routeName
  ELSE f.routeName \o "_" \o f.stopName \o "_" \o ToString(f.direction)
         \o "_" \o f.dayType

C2_IsFavoriteAgrees ==
  (fcall.op = "isFavorite" /\ ~fcall.threw) =>
     ( fcall.ret <=>
         \E i \in DOMAIN Stored :
            /\ Stored[i].type = "stop"
            /\ Stored[i].routeName = fcall.cand.routeName
            /\ Stored[i].stopName = fcall.cand.stopName
            /\ Stored[i].direction = fcall.cand.direction
            /\ Stored[i].dayType = fcall.cand.dayType )

\* isFavorite has just answered false for a stop of a route that is itself
\* a route favorite, next to a stop favorite of another day type
C2_Witness ==
  /\ fcall.op = "isFavorite" /\ ~fcall.threw /\ ~fcall.ret
  /\ \E i \in DOMAIN Stored :
        Stored[i].type = "route" /\ Stored[i].routeName = fcall.cand.routeName
  /\ \E i \in DOMAIN Stored :
        /\ Stored[i].type = "stop"
        /\ Stored[i].routeName = fcall.cand.routeName
        /\ Stored[i].stopName = fcall.cand.stopName
        /\ Stored[i].direction = fcall.cand.direction
        /\ Stored[i].dayType # fcall.cand.dayType

\* C3: in every reachable state no two stored entries have the same id, and
\* every stored entry's id is the one derived from its own fields: "route_" +
\* routeName for a route entry, routeName_stopName_direction_dayType for a
\* stop entry (an entry still without type counts as what migration makes it).
C3_UniqueDerivedIds ==
  \A i \in DOMAIN Stored :
     /\ \A j \in DOMAIN Stored : Stored[i].id = Stored[j].id => i = j
     /\ Stored[i].id = ExpectedId(MigrateEntry(Stored[i]).type, Stored[i])

\* a route entry and a stop entry are stored and an insertion has just been
\* rejected because its id exists
C3_Witness ==
  /\ fcall.op = "addFavorite" /\ ~fcall.ret /\ ~fcall.threw
  /\ HasId(Stored, fcall.id)
  /\ \E i, j \in DOMAIN Stored : Stored[i].type = "route" /\ Stored[j].type = "stop"

\* C4: an entry leaves the registry only through removeFavorite with its id
\* or clearFavorites: across every step each stored entry is still stored
\* (as it was, or with the type migration gave it) unless the step is a
\* removeFavorite of that entry's id or a clearFavorites.
C4_OnlyExplicitRemoval ==
  [][ \A i \in DOMAIN Stored :
        \/ \E j \in DOMAIN favItem'.list :
              favItem'.list[j] \in {Stored[i], MigrateEntry(Stored[i])}
        \/ fcall'.op = "removeFavorite" /\ fcall'.id = Stored[i].id
        \/ fcall'.op = "clearFavorites" ]_vars

\* C19: getFavorites returns every stored entry in its place, an entry
\* without a type given "stop" if it has a stopName and "route" otherwise
\* and nothing else changed; unless a store access throws, it writes the
\* list back exactly when an entry lacked its type, after which the store
\* holds the returned list; and a getFavorites right after another writes
\* nothing and returns the same list.
C19_MigratedOnce ==
  [][ ( fcall'.op = "getFavorites" /\ ~fcall'.threw ) =>
        /\ Len(fcall'.list) = Len(Stored)
        /\ \A i \in DOMAIN Stored :
             fcall'.list[i] =
               IF Stored[i].type # Undefined THEN Stored[i]
               ELSE [Stored[i] EXCEPT
                       !.type = IF Stored[i].stopName # Undefined THEN "stop" ELSE "route"]
        /\ IF \E i \in DOMAIN Stored : Stored[i].type = Undefined
           THEN favItem' = Item(fcall'.list) /\ favItem' # favItem
           ELSE favItem' = favItem
        /\ ( fcall.op = "getFavorites" /\ ~fcall.threw ) =>
             ( favItem' = favItem /\ fcall'.list = fcall.list ) ]_vars
\* a getFavorites has given their types to a stop entry and a route entry and
\* stored them
C19_Witness ==
  /\ fcall.op = "getFavorites" /\ fcall.migrated
  /\ fcall.list = Stored
  /\ \E i, j \in DOMAIN Stored : Stored[i].type = "stop" /\ Stored[j].type = "route"

\* C20: unless a store access throws, removeFavorite(id) returns true,
\* matched or not; afterwards no stored entry has the id, and the entries
\* with another id are all stored, in the order they had (an entry without
\* a type comes back with the type migration gives it).
C20_RemoveKeepsOthers ==
  [][ ( fcall'.op = "removeFavorite" /\ ~fcall'.threw ) =>
        LET keep == {i \in DOMAIN Stored : Stored[i].id # fcall'.id}
        IN /\ fcall'.ret = TRUE
           /\ \A j \in DOMAIN favItem'.list : favItem'.list[j].id # fcall'.id
           /\ Len(favItem'.list) = Cardinality(keep)
           /\ \A i \in keep :
                favItem'.list[Cardinality({j \in keep : j <= i})]
                  \in {Stored[i], MigrateEntry(Stored[i])} ]_vars
\* a removeFavorite has returned true and another entry is still stored
C20_Witness ==
  /\ fcall.op = "removeFavorite" /\ fcall.ret /\ ~fcall.threw
  /\ Len(Stored) = 1
  /\ Stored[1].id # fcall.id

\* C21: the list is ordered newest first.  An addFavorite that returns true
\* with no store access throwing stores the candidate's fields with the
\* timestamp now and the derived id at the front and the previous entries
\* behind it in their order; and the stored timestamps never increase from
\* front to back.  Checked under SpecFavClock, where a step that leaves the
\* clock alone is a call.
C21_NewestFirst ==
  /\ [][ ( now' = now /\ fcall'.op = "addFavorite" /\ fcall'.ret /\ ~fcall'.threw ) =>
           /\ Len(favItem'.list) = Len(Stored) + 1
           /\ favItem'.list[1].timestamp = now
           /\ favItem'.list[1].id = fcall'.id
           /\ \A field \in {"type", "routeName", "routeLongName", "stopName",
                            "direction", "dayType"} :
                favItem'.list[1][field] = fcall'.cand[field]
           /\ \A i \in DOMAIN Stored :
                favItem'.list[i + 1] \in {Stored[i], MigrateEntry(Stored[i])} ]_vars
  /\ [](\A i, j \in DOMAIN Stored : i < j => Stored[i].timestamp >= Stored[j].timestamp)
\* an entry added later stands in front of one stored earlier
C21_Witness ==
  /\ fcall.op = "addFavorite" /\ fcall.ret /\ ~fcall.threw
  /\ Len(Stored) = 2
  /\ Stored[1].timestamp > Stored[2].timestamp

\* C23: a persistence failure never leaves the registry: in a call in which
\* a store access throws, getFavorites returns the empty list, isFavorite
\* returns false, addFavorite, removeFavorite and clearFavorites return
\* false, and the stored favorites are what they were.
C23_FailureContained ==
  [][ fcall'.threw =>
        /\ fcall'.op = "getFavorites" => fcall'.list = <<>>
        /\ fcall'.op \in {"isFavorite", "addFavorite", "removeFavorite",
                          "clearFavorites"} => fcall'.ret = FALSE
        /\ favItem' = favItem ]_vars

\* the stored entry f is the entry of candidate c: the same type and route
\* and, for a stop favorite, the same stop, direction and day type
EntryOf(f, c) ==
  /\ MigrateEntry(f).type = c.type
  /\ f.routeName = c.routeName
  /\ c.type = "stop" => /\ f.stopName = c.stopName
                        /\ f.direction = c.direction
                        /\ f.dayType = c.dayType

\* C27: the id is injective on candidates, so addFavorite (no store access
\* failing) rejects a candidate only when the entry of that very candidate
\* is stored, never because the entry of another candidate is.
C27_RejectedOnlyByItself ==
  [][ (fcall'.op = "addFavorite" /\ ~fcall'.threw /\ fcall'.ret = FALSE)
        => \E i \in DOMAIN favItem.list : EntryOf(favItem.list[i], fcall'.cand) ]_vars

-----------------------------------------------------------------------------
(* Properties of the favorite button, under SpecToggle *)

\* C28: a press of the favorite button (no store access failing) flips the
\* membership of the selection: isFavorite afterwards is the negation of
\* isFavorite before.
C28_ToggleFlips ==
  [][ (fcall'.op = "handleToggleFavorite" /\ ~fcall'.threw)
        => SomeMatch(fcall'.list, fcall'.cand.routeName, fcall'.cand.stopName,
                     fcall'.cand.direction, fcall'.cand.dayType) = ~fcall'.ret ]_vars

-----------------------------------------------------------------------------
(* Properties of the response cache and the fetch, under SpecCache *)

\* the age of the entry under a key
Age(k) == now - cache[k].timestamp

\* C5: getCache returns null whenever now - timestamp > 24h, whatever the
\* stored value; unless a store access throws, the same call removes the
\* entry; and an absent entry appears again only through the setCache of a
\* successful fetch for that key.
C5_ExpiredRemoved ==
  [][ \A k \in CacheKeys :
        /\ ( ccall'.op = "getCache" /\ ccall'.key = k /\ cache[k].present
             /\ Age(k) > CACHE_DURATION )
             => (ccall'.data = Null /\ (~ccall'.threw => ~cache'[k].present))
        /\ (~cache[k].present /\ cache'[k].present)
             => (ccall'.op = "fetchSuccess" /\ ccall'.key = k) ]_vars

\* getCache has just met an expired entry, returned null and removed it
C5_Witness ==
  /\ ccall.op = "getCache" /\ ccall.lookup = "expired"
  /\ ccall.data = Null
  /\ ~cache[ccall.key].present

\* C6 as claimed: an entry whose age is exactly the TTL is treated as
\* expired, getCache returns null for it.
C6_BoundaryExpired ==
  [][ \A k \in CacheKeys :
        ( ccall'.op = "getCache" /\ ccall'.key = k /\ cache[k].present
          /\ Age(k) = CACHE_DURATION )
          => ccall'.data = Null ]_vars

\* C6 as amended: an entry whose age is exactly the TTL is still valid:
\* unless a store access throws, getCache returns its data and leaves it
\* stored; an entry is valid exactly when its age is at most the TTL.
C6_BoundaryValid ==
  [][ \A k \in CacheKeys :
        ( ccall'.op = "getCache" /\ ccall'.key = k /\ cache[k].present
          /\ ~ccall'.threw )
          => IF Age(k) <= CACHE_DURATION
             THEN ccall'.data = cache[k].data /\ cache'[k] = cache[k]
             ELSE ccall'.data = Null ]_vars

\* getCache has just returned the data of an entry of age exactly the TTL
C6_Witness ==
  /\ ccall.op = "getCache" /\ ccall.lookup = "valid"
  /\ cache[ccall.key].present
  /\ Age(ccall.key) = CACHE_DURATION
  /\ ccall.data = cache[ccall.key].data

\* C7: fetchWithCache with useCache = true, called while the cache holds a
\* non-expired entry for the key (and no store access throws), returns
\* {data: the cached value, fromCache: true} with no error field and issues
\* no HTTP request.
C7_HitNoRequest ==
  [][ \A k \in CacheKeys :
        ( ccall'.op = "fetchStart" /\ ccall'.key = k /\ ccall'.useCache
          /\ ~ccall'.threw /\ cache[k].present /\ Age(k) <= CACHE_DURATION )
          => /\ ccall'.outcome = "return"
             /\ ccall'.data = cache[k].data
             /\ ccall'.fromCache
             /\ ccall'.error = Undefined
             /\ pending' = pending ]_vars

\* a fetch has just been answered with the value of a valid cache entry,
\* and no GET is in flight
C7_Witness ==
  /\ ccall.op = "fetchStart" /\ ccall.useCache /\ ccall.lookup = "valid"
  /\ ccall.outcome = "return" /\ ccall.fromCache
  /\ ccall.data = cache[ccall.key].data
  /\ InFlight(pending) = 0

\* C8 as claimed: when the GET of a fetch with useCache = true succeeds, the
\* call returns {data: body, fromCache: false} and the body is stored under
\* the cache key with timestamp now, for every response body.
C8_EveryBodyStored ==
  [][ (ccall'.op = "fetchSuccess" /\ ccall'.useCache /\ ~ccall'.threw) =>
        /\ ccall'.outcome = "return" /\ ~ccall'.fromCache
        /\ cache'[ccall'.key] = CacheItem(ccall'.data, now) ]_vars

\* C8 as amended: when the GET of a fetch with useCache = true succeeds, the
\* call returns {data: body, fromCache: false} for every response body; a
\* truthy body is stored under the cache key with timestamp now (unless the
\* store throws), so that it is a non-expired entry for a following fetch;
\* a falsy body (such as the empty body) is returned but not stored.
C8_TruthyBodyStored ==
  [][ (ccall'.op = "fetchSuccess" /\ ccall'.useCache) =>
        /\ ccall'.outcome = "return" /\ ~ccall'.fromCache
        /\ ccall'.error = Undefined
        /\ ccall'.data \in Bodies
        /\ IF Truthy(ccall'.data) /\ ~ccall'.threw
           THEN cache'[ccall'.key] = CacheItem(ccall'.data, now)
           ELSE cache' = cache
        /\ \A k \in CacheKeys \ {ccall'.key} : cache'[k] = cache[k] ]_vars

\* a successful GET at a later instant has just stored its body with the
\* current timestamp
C8_Witness ==
  /\ ccall.op = "fetchSuccess" /\ ccall.useCache /\ ~ccall.threw
  /\ Truthy(ccall.data)
  /\ now > 0
  /\ cache[ccall.key] = CacheItem(ccall.data, now)

\* C9: when the GET fails, the call returns the value getCache yields for
\* the key (the data of a present entry of age at most the TTL, read without
\* a store exception) with fromCache true and the warning set; when getCache
\* yields nothing the failure is thrown.  Only this fallback result carries
\* an error field.
C9_FailureFallback ==
  [][ /\ \A k \in CacheKeys :
           (ccall'.op = "fetchFailure" /\ ccall'.key = k) =>
              IF cache[k].present /\ Age(k) <= CACHE_DURATION /\ ~ccall'.threw
              THEN /\ ccall'.outcome = "return"
                   /\ ccall'.data = cache[k].data
                   /\ ccall'.fromCache
                   /\ ccall'.error = StaleError
              ELSE ccall'.outcome = "throw"
      /\ ccall'.error # Undefined =>
           (ccall'.op = "fetchFailure" /\ ccall'.outcome = "return") ]_vars

\* a failed GET has just been answered with the cached value and the warning
C9_Witness ==
  /\ ccall.op = "fetchFailure" /\ ccall.outcome = "return"
  /\ ccall.fromCache /\ ccall.error = StaleError
  /\ ccall.data = cache[ccall.key].data

\* C10: every result with fromCache true, from a cache hit or from the
\* fallback after a failure, carries the data of an entry that was present
\* with an age of at most the TTL when the call read it.
C10_NoExpiredData ==
  [][ ccall'.fromCache =>
        /\ ccall'.op \in {"fetchStart", "fetchFailure"}
        /\ cache[ccall'.key].present
        /\ Age(ccall'.key) <= CACHE_DURATION
        /\ ccall'.data = cache[ccall'.key].data ]_vars

\* the fallback after a failed GET has just met an expired entry and thrown
\* instead of returning it
C10_Witness ==
  /\ ccall.op = "fetchFailure" /\ ccall.lookup = "expired"
  /\ ccall.outcome = "throw"
  /\ ~cache[ccall.key].present

-----------------------------------------------------------------------------
(* Properties of the cache namespace and of a failing store, under SpecStore *)

\* C22: a failing store never surfaces.  In every step in which a store
\* access threw, getCache returns null, isCacheFresh and clearCache return,
\* fetchWithCache goes on to the request when its lookup failed, a response
\* that arrived is returned as { data: body, fromCache: false } with no
\* warning, and the only step that throws is a failed request without a
\* usable cached value, which passes the request's failure on.
C22_StoreFailureSwallowed ==
  [][ /\ ccall'.outcome = "throw" => ccall'.op = "fetchFailure"
      /\ ccall'.threw =>
           /\ ccall'.op = "getCache" => ccall'.outcome = "return" /\ ccall'.data = Null
           /\ ccall'.op \in {"clearCache", "isCacheFresh"} => ccall'.outcome = "return"
           /\ ccall'.op = "fetchStart" =>
                ccall'.outcome = "await" /\ InFlight(pending') = InFlight(pending) + 1
           /\ ccall'.op = "fetchSuccess" =>
                /\ ccall'.outcome = "return" /\ ccall'.data \in Bodies
                /\ ~ccall'.fromCache /\ ccall'.error = Undefined
                /\ cache' = cache
           /\ ccall'.op = "fetchFailure" =>
                ccall'.outcome = "throw" /\ cache' = cache ]_vars
\* a response was returned although setCache could not store it
C22_Witness ==
  /\ ccall.op = "fetchSuccess" /\ ccall.threw
  /\ ccall.outcome = "return" /\ Truthy(ccall.data) /\ ~ccall.fromCache
  /\ ~cache[ccall.key].present

\* C24: clearCache removes the items under the cache prefix and no other:
\* unless a store access throws, every cache entry is gone afterwards and
\* getCache gives null for every key; in any case the favorites and the
\* theme stay as they were; and a step of getCache, isCacheFresh or
\* fetchWithCache on one key leaves the entries of the other keys, the
\* favorites and the theme alone.
C24_ClearCacheFrame ==
  [][ /\ ccall'.op = "clearCache" =>
           /\ favItem' = favItem /\ themeItem' = themeItem
           /\ ~ccall'.threw =>
                \A k \in CacheKeys :
                  ~cache'[k].present /\ GetCacheOn(cache', k, now, FALSE).ret = Null
      /\ ccall'.op \in {"getCache", "isCacheFresh", "fetchStart", "fetchSuccess",
                        "fetchFailure"} =>
           /\ favItem' = favItem /\ themeItem' = themeItem
           /\ \A k \in CacheKeys \ {ccall'.key} : cache'[k] = cache[k] ]_vars
\* clearCache has removed cache entries; the favorites and the theme are there
C24_Witness ==
  /\ ccall.op = "clearCache" /\ ccall.lookup = "removed" /\ ~ccall.threw
  /\ favItem.present /\ themeItem.present
  /\ \A k \in CacheKeys : ~cache[k].present

\* C25: isCacheFresh(key) never changes the store; unless a store access
\* throws it is true exactly when an entry is present and less than an hour
\* old; and whenever it is true, getCache of the key at the same time
\* returns the entry's data.
C25_FreshWithinHour ==
  [][ ccall'.op = "isCacheFresh" =>
        LET k == ccall'.key
        IN /\ cache' = cache /\ favItem' = favItem /\ themeItem' = themeItem
           /\ ~ccall'.threw =>
                ( ccall'.fresh <=> ( cache[k].present
                                     /\ now - cache[k].timestamp < 3600000 ) )
           /\ ccall'.threw => ~ccall'.fresh
           /\ ccall'.fresh =>
                /\ cache[k].present
                /\ GetCacheOn(cache, k, now, FALSE).ret = cache[k].data ]_vars
\* an entry one millisecond short of an hour old is fresh
C25_Witness ==
  /\ ccall.op = "isCacheFresh" /\ ccall.fresh
  /\ now - cache[ccall.key].timestamp = FRESH_WINDOW - 1

-----------------------------------------------------------------------------
(* Properties of the typed accessors, under SpecAccess *)

\* the response lacks the field the accessor reads
LacksField(data, name) == ~(data.type = "object" /\ name \in DOMAIN data.fields)

\* the value an accessor returned for its field
Unwrapped(call) == IF call.op = "getSchedule" THEN call.ret.schedule ELSE call.ret

\* C26: whenever fetchWithCache yields a response that lacks the field an
\* accessor reads, the empty body included, the accessor does not throw and
\* returns its default: the empty list, or null for intervals and durations.
C26_DefaultWhenFieldMissing ==
  [][ ( /\ acall.state = "await"
        /\ acall'.state \in {"return", "throw"}
        /\ acall'.result.outcome = "return"
        /\ LacksField(acall'.result.data, FieldOf(acall'.op)) )
      => /\ acall'.state = "return"
         /\ Unwrapped(acall') = DefaultOf(acall'.op) ]_vars

-----------------------------------------------------------------------------
(* Properties of the schedule screen, under SpecSched *)

\* C29: once no request of the schedule screen is in flight (and none has
\* failed), the schedule shown for a selected stop is the one fetched for
\* the selected stop, direction and day type.
C29_ShownIsSelected ==
  (schedReqs = {} /\ selectedStop # Null /\ appError = Null)
    => schedule.for = StopSelection(selectedStop, appDirection, appDayType)

-----------------------------------------------------------------------------
(* Properties of the next-departure calculator, under SpecNext *)

\* the hour and the minute a schedule time "HH:MM[:SS]" names
HourOf(time) == CHOOSE h \in 0..23 : Pad2(h) = SubSeq(time, 1, 2)
MinuteOf(time) == CHOOSE m \in 0..59 : Pad2(m) = SubSeq(time, 4, 5)
\* minutes since midnight, counted on into the next day for hours before 04:00
TransitMinutes(h, m) == IF h < 4 THEN h * 60 + m + 1440 ELSE h * 60 + m

\* C17: getNextDeparture returns the entry with the least transit-day minute
\* strictly after the current one, its time cut to HH:MM and diffMin the
\* distance in minutes, at least 1; it returns null exactly when the schedule
\* has no entry after the current time.
C17_EarliestLater ==
  ~ncall.none =>
    LET sd == ncall.scheduleData
        normalizedNow == TransitMinutes(ncall.date.h, ncall.date.m)
        totalMin == [i \in DOMAIN sd |-> TransitMinutes(HourOf(sd[i]), MinuteOf(sd[i]))]
        later == {i \in DOMAIN sd : totalMin[i] > normalizedNow}
    IN IF later = {} THEN ncall.ret = NoDeparture
       ELSE /\ ~ncall.ret.null
            /\ \E i \in later :
                 /\ \A j \in later : totalMin[i] <= totalMin[j]
                 /\ ncall.ret.time = HHMM(HourOf(sd[i]), MinuteOf(sd[i]))
                 /\ ncall.ret.diffMin = totalMin[i] - normalizedNow
            /\ ncall.ret.diffMin >= 1
\* ["00:10", "23:56:30"] at 23:55, out of order and with seconds, gives
\* { time: "23:56", diffMin: 1 }
C17_Witness ==
  /\ ~ncall.none
  /\ ncall.scheduleData = <<HHMM(0, 10), HHMMSS(23, 56, 30)>>
  /\ ncall.date = [h |-> 23, m |-> 55]
  /\ ncall.ret = Departure(HHMM(23, 56), 1)

\* C18: from 04:00 on, the entries with an hour before 4 come after all the
\* others and count as upcoming: a schedule holding one never gives null,
\* and one of them is the result only when no entry with a later hour of the
\* same day is still ahead.
C18_AcrossMidnight ==
  ( ~ncall.none /\ ncall.date.h >= 4 ) =>
    LET sd == ncall.scheduleData
        early == {i \in DOMAIN sd : HourOf(sd[i]) < 4}
    IN /\ early # {} => ~ncall.ret.null
       /\ ( ~ncall.ret.null /\ HourOf(ncall.ret.time) < 4 ) =>
            /\ \E i \in early : ncall.ret.time = SubSeq(sd[i], 1, 5)
            /\ \A j \in DOMAIN sd \ early :
                 HourOf(sd[j]) * 60 + MinuteOf(sd[j]) <= ncall.date.h * 60 + ncall.date.m
\* ["23:50", "00:10", "02:00"] at 23:55 gives { time: "00:10", diffMin: 15 }
C18_Witness ==
  /\ ~ncall.none
  /\ ncall.scheduleData = <<HHMM(23, 50), HHMM(0, 10), HHMM(2, 0)>>
  /\ ncall.date = [h |-> 23, m |-> 55]
  /\ ncall.ret = Departure(HHMM(0, 10), 15)

-----------------------------------------------------------------------------
(* Properties of the batch departure loader, under SpecBatch *)

\* the chunks of a load, one after the other
RECURSIVE Flatten(_)
Flatten(chunks) ==
  IF chunks = <<>> THEN <<>> ELSE Head(chunks) \o Flatten(Tail(chunks))

\* stop k of load b settles in this step, by rejection / by resolution
Rejects(b, k) ==
  Running(loads[b]) /\ k \in loads[b].waiting /\ k \in loads'[b].failed
Resolves(b, k) ==
  /\ Running(loads[b]) /\ k \in loads[b].waiting
  /\ Running(loads'[b]) /\ k \notin loads'[b].waiting /\ k \notin loads'[b].failed
  /\ loads'[b].i = loads[b].i

\* the entry the try block stores for stop k of load l
Published(l, k) ==
  NextEntry(GetNextDepartureAt(ScheduleOf(l.sel.routeName, l.stopsData[k],
                                          l.sel.dir, l.sel.dt), clock), l.sel)

\* C11: when the schedule fetch of a stop fails, the loader records an
\* explicit "unknown" result for it: after the step in which getSchedule
\* rejects for a stop, the next-departure map has an entry for that stop,
\* wherever the stop stands in the list.
C11_FailureRecorded ==
  [][ \A b \in Slots, k \in 1..MaxStops :
        Rejects(b, k) => nextDepartures'[loads[b].stopsData[k]].has ]_vars

\* C12: a failed fetch never aborts the batch.  The step in which a fetch
\* fails leaves the load running with every other fetch of the chunk still
\* awaited; a fetch that resolves publishes its result; a finished load has
\* called getSchedule for every stop of its list, failures or not; and the
\* loader never ends in any other way than by falling out of its loop.
C12_FailureIsolated ==
  /\ [][ \A b \in Slots, k \in 1..MaxStops :
           /\ Rejects(b, k) =>
                /\ Running(loads'[b])
                /\ loads'[b].waiting = loads[b].waiting \ {k}
                /\ loads'[b].i = loads[b].i
           /\ Resolves(b, k) =>
                nextDepartures'[loads[b].stopsData[k]] = Published(loads[b], k) ]_vars
  /\ [](\A b \in Slots :
          /\ loads[b].pc \in {"idle", "await", "done"}
          /\ loads[b].pc = "done" =>
               /\ loads[b].waiting = {}
               /\ \A k \in DOMAIN loads[b].stopsData : loads[b].calls[k] = 1)
\* a load has finished although one of its fetches failed, in the first
\* chunk of several, and the stops after it have their results
C12_Witness ==
  \E b \in Slots :
    /\ loads[b].pc = "done"
    /\ Len(loads[b].chunks) > 1
    /\ \E k \in loads[b].failed :
         /\ k < chunkSize
         /\ \A j \in (k + 1)..Len(loads[b].stopsData) :
              nextDepartures[loads[b].stopsData[j]] = Published(loads[b], j)

\* C13: a load over n stops slices the list, in order, into ceil(n / 5)
\* consecutive chunks of 5 stops (the last one of n mod 5 stops when that is
\* not zero) and calls getSchedule exactly once per stop.
C13_Chunking ==
  \A b \in Slots :
    LET l == loads[b]
        n == Len(l.stopsData)
    IN /\ \A c \in DOMAIN l.chunks :
            Len(l.chunks[c]) = IF c * chunkSize <= n THEN chunkSize ELSE n % chunkSize
       /\ Flatten(l.chunks) = SubSeq(l.stopsData, 1, Len(Flatten(l.chunks)))
       /\ \A k \in DOMAIN l.stopsData :
            l.calls[k] = IF k <= Len(Flatten(l.chunks)) THEN 1 ELSE 0
       /\ l.pc = "done" =>
            /\ Len(l.chunks) = (n + chunkSize - 1) \div chunkSize
            /\ Flatten(l.chunks) = l.stopsData
\* a load over 12 stops has finished with chunks of 5, 5 and 2 stops
C13_Witness ==
  \E b \in Slots :
    /\ loads[b].pc = "done"
    /\ Len(loads[b].stopsData) = 12
    /\ [c \in DOMAIN loads[b].chunks |-> Len(loads[b].chunks[c])] = <<5, 5, 2>>

\* C14: within one load, no fetch of the next chunk is issued before every
\* fetch of the current chunk has settled: a step that slices a further
\* chunk starts from a state in which the load awaits no fetch, and the
\* fetches a load awaits all belong to the chunk sliced last.
C14_ChunksInSequence ==
  /\ [][ \A b \in Slots :
           ( Running(loads[b]) /\ Len(loads'[b].chunks) > Len(loads[b].chunks) )
             => loads[b].waiting = {} ]_vars
  /\ [](\A b \in Slots :
          Running(loads[b]) =>
            \A k \in loads[b].waiting :
              k > loads[b].i /\ k <= loads[b].i + Len(loads[b].chunks[Len(loads[b].chunks)]))
\* the second chunk is awaited, its fetches settling out of list order
C14_Witness ==
  \E b \in Slots :
    /\ Running(loads[b])
    /\ Len(loads[b].chunks) = 2
    /\ loads[b].i + 1 \in loads[b].waiting
    /\ loads[b].i + 2 \notin loads[b].waiting

\* C15: at every moment at most 5 schedule requests of the batch loader are
\* in flight, whatever buttons the user clicks and whenever responses come.
C15_AtMostChunkInFlight ==
  InFlightSchedules(loads) <= chunkSize

\* C16: a later day-type click does not cancel a running load: across every
\* step a running load keeps its arguments and what it awaits, apart from the
\* fetch that settles or the chunk that follows; and a fetch that resolves
\* for a day type other than the displayed one is written to the map all the
\* same.
C16_NoCancellation ==
  [][ \A b \in Slots :
        Running(loads[b]) =>
          /\ loads'[b].pc \in {"await", "done"}
          /\ loads'[b].stopsData = loads[b].stopsData
          /\ loads'[b].sel = loads[b].sel
          /\ \/ loads'[b].waiting \subseteq loads[b].waiting /\ loads'[b].i = loads[b].i
             \/ loads[b].waiting = {}
          /\ \A k \in loads[b].waiting :
               ( Resolves(b, k) /\ loads[b].sel.dt # appDayType )
                 => nextDepartures'[loads[b].stopsData[k]] = Published(loads[b], k) ]_vars
\* the weekend timetable is displayed and the map holds a weekday value
C16_Witness ==
  /\ appDayType = "weekend"
  /\ \E name \in StopNames :
       /\ nextDepartures[name].has
       /\ nextDepartures[name].for = Selection(RouteName, Direction, "weekday")

\* C30: on the stop-list screen of a route with stops, a step that switches
\* the day type, to weekday or to weekend, clears the next-departure map and
\* starts a load over all the stops with the route, the direction and the
\* new day type.
C30_SwitchStartsLoad ==
  [][ (appDayType' # appDayType /\ selectedStop = Null /\ Len(stops) > 0)
        => /\ nextDepartures' = EmptyMap
           /\ \E b \in Slots :
                /\ ~Running(loads[b])
                /\ Running(loads'[b])
                /\ loads'[b].stopsData = stops
                /\ loads'[b].sel = Selection(RouteName, appDirection, appDayType') ]_vars

====
